---- MODULE Spec2Model ----
(***************************************************************************)
(* Model of the chat Edge Functions of the mental-health chatbot:          *)
(* the EnhancedSentimentAnalyzer (text -> sentiment, emotion, intent,      *)
(* confidence), detectCrisisLevel, analyzeConversationHistory and the      *)
(* enhanced request handler with its Supabase collaborators.               *)
(*                                                                         *)
(* Texts are TLA+ strings; the string functions of the code (toLowerCase,  *)
(* replace, trim, split, includes, RegExp.test) are computed character by  *)
(* character.  Confidence values are fractions of a percent: a confidence  *)
(* c is stored as the integer c * ConfScale.                               *)
(***************************************************************************)
EXTENDS Integers, Sequences, FiniteSets, TLC

VARIABLES
    emotionKeywords,   \* analyzer field: ordered emotion -> keywords
    intentKeywords,    \* analyzer field: ordered intent -> keywords
    op,                \* the operation applied last ("init" before any)
    input,             \* the input of the operation under examination
    output,            \* what the operation returned (or threw)
    db,                \* the Supabase tables
    req                \* the chat requests in flight and answered

vars == <<emotionKeywords, intentKeywords, op, input, output, db, req>>

(***************************************************************************)
(* Bounds of the model.                                                    *)
(***************************************************************************)
MaxAtoms == 3
MaxMessages == 3
MaxRequests == 2
MaxScorers == 5

(***************************************************************************)
(* Strings.                                                                *)
(***************************************************************************)
LowerLetters == "abcdefghijklmnopqrstuvwxyz"
UpperLetters == "ABCDEFGHIJKLMNOPQRSTUVWXYZ"

CharAt(s, i) == SubSeq(s, i, i)

CharSet(s) == {CharAt(s, i) : i \in 1..Len(s)}

LowerSet == CharSet(LowerLetters)
UpperSet == CharSet(UpperLetters)
Whitespace == {" ", "\t", "\n"}

\* String.prototype.toLowerCase on one character
lowerChar(c) ==
    IF c \in UpperSet
    THEN CharAt(LowerLetters, CHOOSE i \in 1..Len(UpperLetters) : CharAt(UpperLetters, i) = c)
    ELSE c

RECURSIVE toLowerCase(_)
toLowerCase(s) ==
    IF s = "" THEN "" ELSE lowerChar(Head(s)) \o toLowerCase(Tail(s))

\* .replace(/[^a-zA-Z\s]/g, '')
RECURSIVE stripNonAlpha(_)
stripNonAlpha(s) ==
    IF s = "" THEN ""
    ELSE LET c == Head(s) IN
         (IF c \in LowerSet \cup UpperSet \cup Whitespace THEN c ELSE "")
             \o stripNonAlpha(Tail(s))

\* .replace(/\s+/g, ' ')
RECURSIVE collapseSpaces(_)
collapseSpaces(s) ==
    IF s = "" THEN ""
    ELSE IF Head(s) \in Whitespace
         THEN IF Len(s) > 1 /\ CharAt(s, 2) \in Whitespace
              THEN collapseSpaces(Tail(s))
              ELSE " " \o collapseSpaces(Tail(s))
         ELSE Head(s) \o collapseSpaces(Tail(s))

\* .trim()
RECURSIVE trimStart(_)
trimStart(s) ==
    IF s # "" /\ Head(s) \in Whitespace THEN trimStart(Tail(s)) ELSE s

RECURSIVE trimEnd(_)
trimEnd(s) ==
    IF s # "" /\ CharAt(s, Len(s)) \in Whitespace
    THEN trimEnd(SubSeq(s, 1, Len(s) - 1)) ELSE s

trim(s) == trimEnd(trimStart(s))

\* String.prototype.includes
includes(s, k) ==
    \E i \in 0..(Len(s) - Len(k)) : SubSeq(s, i + 1, i + Len(k)) = k

\* String.prototype.split(' ')
RECURSIVE split(_)
split(s) ==
    IF ~includes(s, " ") THEN <<s>>
    ELSE LET i == CHOOSE j \in 1..Len(s) :
                    /\ CharAt(s, j) = " "
                    /\ \A h \in 1..(j - 1) : CharAt(s, h) # " "
         IN <<SubSeq(s, 1, i - 1)>> \o split(SubSeq(s, i + 1, Len(s)))

\* Array.prototype.includes
SeqIncludes(q, x) == \E i \in 1..Len(q) : q[i] = x

\* number of elements of q satisfying Test (forEach with a counter)
CountIf(q, Test(_)) == Cardinality({i \in 1..Len(q) : Test(q[i])})

Max(a, b) == IF a > b THEN a ELSE b
Min(a, b) == IF a < b THEN a ELSE b

(***************************************************************************)
(* The analyzer's lexicons as the constructor sets them.                   *)
(***************************************************************************)
InitEmotionKeywords == <<
    [name |-> "anxiety",    keywords |-> <<"anxious", "worried", "nervous", "scared", "fear", "panic", "stress", "overwhelmed">>],
    [name |-> "depression", keywords |-> <<"sad", "depressed", "hopeless", "worthless", "empty", "tired", "exhausted", "down">>],
    [name |-> "anger",      keywords |-> <<"angry", "mad", "furious", "irritated", "frustrated", "hate", "rage">>],
    [name |-> "happiness",  keywords |-> <<"happy", "joy", "excited", "pleased", "content", "grateful", "blessed">>],
    [name |-> "loneliness", keywords |-> <<"alone", "lonely", "isolated", "abandoned", "left out", "no one">>],
    [name |-> "suicidal",   keywords |-> <<"suicide", "kill myself", "end it all", "want to die", "better off dead", "no point">>] >>

\* the intent lexicon without 'grateful' among the gratitude keywords
InitIntentKeywordsNoGrateful == <<
    [name |-> "help_request", keywords |-> <<"help", "support", "need", "struggling", "crisis">>],
    [name |-> "greeting",     keywords |-> <<"hello", "hi", "how are you", "feeling", "doing">>],
    [name |-> "gratitude",    keywords |-> <<"thank", "thanks", "appreciate">>],
    [name |-> "meditation",   keywords |-> <<"meditate", "breathing", "calm", "relax", "mindfulness">>],
    [name |-> "sleep",        keywords |-> <<"sleep", "insomnia", "tired", "rest", "bed">>],
    [name |-> "general",      keywords |-> <<"general", "talk", "chat", "conversation">>] >>

InitIntentKeywords == <<
    [name |-> "help_request", keywords |-> <<"help", "support", "need", "struggling", "crisis">>],
    [name |-> "greeting",     keywords |-> <<"hello", "hi", "how are you", "feeling", "doing">>],
    [name |-> "gratitude",    keywords |-> <<"thank", "thanks", "appreciate", "grateful">>],
    [name |-> "meditation",   keywords |-> <<"meditate", "breathing", "calm", "relax", "mindfulness">>],
    [name |-> "sleep",        keywords |-> <<"sleep", "insomnia", "tired", "rest", "bed">>],
    [name |-> "general",      keywords |-> <<"general", "talk", "chat", "conversation">>] >>

Sentiments == {"positive", "negative", "neutral"}
Emotions == {InitEmotionKeywords[i].name : i \in 1..Len(InitEmotionKeywords)} \cup {"neutral"}
Intents == {InitIntentKeywords[i].name : i \in 1..Len(InitIntentKeywords)}

\* the analyzer as constructed (const analyzer = new EnhancedSentimentAnalyzer())
AnalyzerInit ==
    /\ emotionKeywords = InitEmotionKeywords
    /\ intentKeywords = InitIntentKeywords

\* the number of scorers analyzeSentiment combines; a confidence c is
\* stored as c * ConfScale so that votes/3 * 100 stays an integer
ConfScale == 3

(***************************************************************************)
(* EnhancedSentimentAnalyzer.                                              *)
(***************************************************************************)
cleanText(text) == trim(collapseSpaces(stripNonAlpha(toLowerCase(text))))

vaderPositiveWords == <<"good", "great", "wonderful", "excellent", "amazing", "love", "joy", "happy", "blessed">>
vaderNegativeWords == <<"bad", "terrible", "awful", "hate", "angry", "depressed", "suicidal", "sad", "hopeless">>

\* vaderSentiment counting the listed words the text includes, not the
\* tokens that equal a listed word
vaderSentimentSubstring(text) ==
    LET words == split(text)
        positiveCount == CountIf(vaderPositiveWords, LAMBDA w : includes(text, w))
        negativeCount == CountIf(vaderNegativeWords, LAMBDA w : includes(text, w))
        num == positiveCount - negativeCount
        den == Max(Len(words), 1)
    IN [sentiment |-> IF num * 10 > den THEN "positive"
                      ELSE IF num * 10 < -den THEN "negative" ELSE "neutral",
        num |-> num, den |-> den,
        positive |-> positiveCount, negative |-> negativeCount]

\* compound = (positive - negative) / den, compared to +-0.1 without division
vaderSentiment(text) ==
    LET words == split(text)
        positiveCount == CountIf(words, LAMBDA w : SeqIncludes(vaderPositiveWords, w))
        negativeCount == CountIf(words, LAMBDA w : SeqIncludes(vaderNegativeWords, w))
        num == positiveCount - negativeCount
        den == Max(Len(words), 1)
    IN [sentiment |-> IF num * 10 > den THEN "positive"
                      ELSE IF num * 10 < -den THEN "negative" ELSE "neutral",
        num |-> num, den |-> den,
        positive |-> positiveCount, negative |-> negativeCount]

positiveKeywords == <<"happy", "good", "great", "wonderful", "excited", "grateful">>
negativeKeywords == <<"sad", "bad", "terrible", "depressed", "angry", "suicidal">>

\* the number of places of text at which k occurs
Occurrences(text, k) ==
    Cardinality({i \in 0..(Len(text) - Len(k)) : SubSeq(text, i + 1, i + Len(k)) = k})

\* the occurrences in text of all the keywords of a list
TotalOccurrences(text, keywords) ==
    Cardinality({<<j, i>> \in (1..Len(keywords)) \X (0..Len(text)) :
                    /\ i + Len(keywords[j]) <= Len(text)
                    /\ SubSeq(text, i + 1, i + Len(keywords[j])) = keywords[j]})

\* keywordSentiment adding one per occurrence of a keyword, not one per
\* keyword the text includes
keywordSentimentOccurrences(text) ==
    LET positiveScore == TotalOccurrences(text, positiveKeywords)
        negativeScore == TotalOccurrences(text, negativeKeywords)
        total == positiveScore + negativeScore
        num == positiveScore - negativeScore
    IN IF total = 0 THEN [sentiment |-> "neutral", num |-> 0, den |-> 1]
       ELSE [sentiment |-> IF num * 10 > 3 * total THEN "positive"
                           ELSE IF num * 10 < -3 * total THEN "negative" ELSE "neutral",
             num |-> num, den |-> total]

\* score = num / den, compared to +-0.3 without division
keywordSentiment(text) ==
    LET positiveScore == CountIf(positiveKeywords, LAMBDA k : includes(text, k))
        negativeScore == CountIf(negativeKeywords, LAMBDA k : includes(text, k))
        total == positiveScore + negativeScore
        num == positiveScore - negativeScore
    IN IF total = 0 THEN [sentiment |-> "neutral", num |-> 0, den |-> 1]
       ELSE [sentiment |-> IF num * 10 > 3 * total THEN "positive"
                           ELSE IF num * 10 < -3 * total THEN "negative" ELSE "neutral",
             num |-> num, den |-> total]

\* a pattern /prefix (a|b|c)/i is the set of its alternatives' phrases
positivePatterns == <<
    {"i feel good", "i feel great", "i feel wonderful", "i feel happy", "i feel blessed"},
    {"i am happy", "i am excited", "i am grateful", "i am content"},
    {"things are good", "things are great", "things are wonderful"} >>
negativePatterns == <<
    {"i feel sad", "i feel bad", "i feel terrible", "i feel hopeless", "i feel worthless"},
    {"i am sad", "i am depressed", "i am angry", "i am lonely"},
    {"things are bad", "things are terrible", "things are awful"},
    {"i want to die", "i want to kill myself", "i want to end it all"} >>

\* RegExp.prototype.test with the i flag
patternTest(pattern, text) ==
    LET t == toLowerCase(text) IN \E phrase \in pattern : includes(t, phrase)

patternSentiment(text) ==
    LET positiveMatches == CountIf(positivePatterns, LAMBDA p : patternTest(p, text))
        negativeMatches == CountIf(negativePatterns, LAMBDA p : patternTest(p, text))
    IN IF positiveMatches > negativeMatches
       THEN [sentiment |-> "positive", num |-> positiveMatches, den |-> positiveMatches + negativeMatches]
       ELSE IF negativeMatches > positiveMatches
       THEN [sentiment |-> "negative", num |-> negativeMatches, den |-> positiveMatches + negativeMatches]
       ELSE [sentiment |-> "neutral", num |-> 1, den |-> 2]

\* combineSentiments testing neutral before positive and negative
combineSentimentsNeutralFirst(scores) ==
    LET count(label) == CountIf(scores, LAMBDA s : s.sentiment = label)
        maxCount == Max(count("positive"), Max(count("negative"), count("neutral")))
    IN IF count("neutral") = maxCount
       THEN [sentiment |-> "neutral", num |-> maxCount, den |-> Len(scores)]
       ELSE IF count("positive") = maxCount
       THEN [sentiment |-> "positive", num |-> maxCount, den |-> Len(scores)]
       ELSE [sentiment |-> "negative", num |-> maxCount, den |-> Len(scores)]

\* confidence = num / den
combineSentiments(scores) ==
    LET count(label) == CountIf(scores, LAMBDA s : s.sentiment = label)
        maxCount == Max(count("positive"), Max(count("negative"), count("neutral")))
    IN IF count("positive") = maxCount
       THEN [sentiment |-> "positive", num |-> maxCount, den |-> Len(scores)]
       ELSE IF count("negative") = maxCount
       THEN [sentiment |-> "negative", num |-> maxCount, den |-> Len(scores)]
       ELSE [sentiment |-> "neutral", num |-> maxCount, den |-> Len(scores)]

\* the entries of the score object in the reverse of the lexicon's order
RECURSIVE keywordScoresReversed(_, _)
keywordScoresReversed(lexicon, text) ==
    IF lexicon = <<>> THEN <<>>
    ELSE LET score == CountIf(Head(lexicon).keywords, LAMBDA k : includes(text, k))
         IN keywordScoresReversed(Tail(lexicon), text)
                \o (IF score > 0 THEN << <<Head(lexicon).name, score>> >> ELSE <<>>)

\* Object.entries of the score object: the pairs <<category, score>> with
\* a score > 0, in the lexicon's insertion order
RECURSIVE keywordScores(_, _)
keywordScores(lexicon, text) ==
    IF lexicon = <<>> THEN <<>>
    ELSE LET score == CountIf(Head(lexicon).keywords, LAMBDA k : includes(text, k))
         IN (IF score > 0 THEN << <<Head(lexicon).name, score>> >> ELSE <<>>)
                \o keywordScores(Tail(lexicon), text)

\* the reduce with >= in place of >: the first of tied entries is kept
RECURSIVE reduceGreaterOrEqual(_, _)
reduceGreaterOrEqual(a, rest) ==
    IF rest = <<>> THEN a
    ELSE reduceGreaterOrEqual(IF a[2] >= Head(rest)[2] THEN a ELSE Head(rest), Tail(rest))

\* entries.reduce((a, b) => scores[a[0]] > scores[b[0]] ? a : b) with no
\* initial value, on a non-empty array: a is the first entry
RECURSIVE reduceGreater(_, _)
reduceGreater(a, rest) ==
    IF rest = <<>> THEN a
    ELSE reduceGreater(IF a[2] > Head(rest)[2] THEN a ELSE Head(rest), Tail(rest))

\* the detector returning the first category that has a score
detectCategoryFirst(lexicon, text, default) ==
    LET scores == keywordScores(lexicon, text)
    IN IF Len(scores) = 0 THEN default ELSE Head(scores)[1]

detectCategory(lexicon, text, default) ==
    LET scores == keywordScores(lexicon, text)
    IN IF Len(scores) = 0 THEN default
       ELSE reduceGreater(Head(scores), Tail(scores))[1]

detectEmotion(lexicon, text) == detectCategory(lexicon, text, "neutral")

detectIntent(lexicon, text) == detectCategory(lexicon, text, "general")

\* calculateConfidence returning the boosted value without Math.min(.., 100)
calculateConfidenceUnclamped(sentiment, emotion, intent) ==
    (sentiment.num * 100 * ConfScale) \div sentiment.den
        + (IF emotion = "suicidal" THEN 20 * ConfScale ELSE 0)
        + (IF emotion = "depression" \/ emotion = "anxiety" THEN 10 * ConfScale ELSE 0)
        + (IF intent = "help_request" THEN 15 * ConfScale ELSE 0)
        + (IF intent = "meditation" \/ intent = "sleep" THEN 10 * ConfScale ELSE 0)

\* calculateConfidence without the boost for the sleep intent
calculateConfidenceNoSleepBoost(sentiment, emotion, intent) ==
    Min((sentiment.num * 100 * ConfScale) \div sentiment.den
            + (IF emotion = "suicidal" THEN 20 * ConfScale ELSE 0)
            + (IF emotion = "depression" \/ emotion = "anxiety" THEN 10 * ConfScale ELSE 0)
            + (IF intent = "help_request" THEN 15 * ConfScale ELSE 0)
            + (IF intent = "meditation" THEN 10 * ConfScale ELSE 0),
        100 * ConfScale)

\* sentiment.confidence = num/den; the result is confidence * ConfScale
calculateConfidence(sentiment, emotion, intent) ==
    LET base == (sentiment.num * 100 * ConfScale) \div sentiment.den
        c1 == base + (IF emotion = "suicidal" THEN 20 * ConfScale ELSE 0)
        c2 == c1 + (IF emotion = "depression" \/ emotion = "anxiety" THEN 10 * ConfScale ELSE 0)
        c3 == c2 + (IF intent = "help_request" THEN 15 * ConfScale ELSE 0)
        c4 == c3 + (IF intent = "meditation" \/ intent = "sleep" THEN 10 * ConfScale ELSE 0)
    IN Min(c4, 100 * ConfScale)

\* this.emotionKeywords and this.intentKeywords are the parameters emo, int
analyzeSentiment(emo, int, text) ==
    LET cleanedText == cleanText(text)
        vaderScore == vaderSentiment(cleanedText)
        keywordScore == keywordSentiment(cleanedText)
        patternScore == patternSentiment(cleanedText)
        combinedSentiment == combineSentiments(<<vaderScore, keywordScore, patternScore>>)
        emotion == detectEmotion(emo, cleanedText)
        intent == detectIntent(int, cleanedText)
        confidence == calculateConfidence(combinedSentiment, emotion, intent)
    IN [sentiment |-> combinedSentiment.sentiment,
        emotion |-> emotion,
        intent |-> intent,
        confidence |-> confidence,
        scores |-> [vader |-> vaderScore, keyword |-> keywordScore,
                    pattern |-> patternScore, combined |-> combinedSentiment]]

\* analyzeEmotion of the basic chat function: the first branch of the
\* if-chain whose keywords the lower-cased text includes
analyzeEmotion(text) ==
    LET text_lower == toLowerCase(text)
    IN IF includes(text_lower, "suicidal") \/ includes(text_lower, "kill myself") THEN "suicidal"
       ELSE IF includes(text_lower, "anxiety") \/ includes(text_lower, "worried") THEN "anxiety"
       ELSE IF includes(text_lower, "depressed") \/ includes(text_lower, "sad") THEN "depression"
       ELSE IF includes(text_lower, "angry") \/ includes(text_lower, "mad") THEN "anger"
       ELSE IF includes(text_lower, "lonely") \/ includes(text_lower, "alone") THEN "loneliness"
       ELSE "neutral"

(***************************************************************************)
(* analyzeConversationHistory.  A call returns a value or throws.          *)
(***************************************************************************)
Return(v) == [kind |-> "return", value |-> v]
Throw(e) == [kind |-> "throw", error |-> e]
Null == [kind |-> "null"]

\* arr.reduce((acc, val) => { acc[val] = (acc[val] || 0) + 1 }, {}): the
\* object's entries <<label, count>>, a key inserted at its first occurrence
RECURSIVE countInto(_, _)
countInto(acc, arr) ==
    IF arr = <<>> THEN acc
    ELSE LET val == Head(arr)
             next == IF \E i \in 1..Len(acc) : acc[i][1] = val
                     THEN [i \in 1..Len(acc) |->
                              IF acc[i][1] = val THEN <<val, acc[i][2] + 1>> ELSE acc[i]]
                     ELSE Append(acc, <<val, 1>>)
         IN countInto(next, Tail(arr))

countOccurrences(arr) == countInto(<<>>, arr)

\* getDominant returning the first key of counts
getDominantFirst(counts) ==
    IF counts = <<>> THEN Throw("TypeError")
    ELSE Return(Head(counts)[1])

\* Object.entries(counts).reduce(...)[0]; reduce of an empty array with no
\* initial value throws a TypeError
getDominant(counts) ==
    IF counts = <<>> THEN Throw("TypeError")
    ELSE Return(reduceGreater(Head(counts), Tail(counts))[1])

\* the analyses of the user messages, in order
RECURSIVE userAnalyses(_, _, _)
userAnalyses(emo, int, messages) ==
    IF messages = <<>> THEN <<>>
    ELSE (IF Head(messages).sender_type = "user"
          THEN <<analyzeSentiment(emo, int, Head(messages).content)>> ELSE <<>>)
             \o userAnalyses(emo, int, Tail(messages))

\* the returned object, or what getDominant threw
trendResult(sentimentCounts, emotionCounts, dominantSentiment, dominantEmotion, messageCount) ==
    IF dominantSentiment.kind = "throw" THEN dominantSentiment
    ELSE IF dominantEmotion.kind = "throw" THEN dominantEmotion
    ELSE Return([sentiment_distribution |-> sentimentCounts,
                 emotion_distribution |-> emotionCounts,
                 dominant_sentiment |-> dominantSentiment.value,
                 dominant_emotion |-> dominantEmotion.value,
                 message_count |-> messageCount])

trendOfCounts(sentimentCounts, emotionCounts, messageCount) ==
    trendResult(sentimentCounts, emotionCounts,
                getDominant(sentimentCounts), getDominant(emotionCounts), messageCount)

trendOfAnalyses(analyses, messageCount) ==
    trendOfCounts(countOccurrences([i \in 1..Len(analyses) |-> analyses[i].sentiment]),
                  countOccurrences([i \in 1..Len(analyses) |-> analyses[i].emotion]),
                  messageCount)

\* the body of analyzeConversationHistory after the length test
conversationTrend(emo, int, messages) ==
    trendOfAnalyses(userAnalyses(emo, int, messages), Len(messages))

\* analyzeConversationHistory without the early return for an empty list
analyzeConversationHistoryNoGuard(emo, int, messages) ==
    conversationTrend(emo, int, messages)

analyzeConversationHistory(emo, int, messages) ==
    IF Len(messages) = 0 THEN Null
    ELSE conversationTrend(emo, int, messages)

(***************************************************************************)
(* detectCrisisLevel, on [sentiment, emotion, intent, confidence].         *)
(***************************************************************************)
\* the additive rules of detectCrisisLevel, optionally without the
\* 'suicidal' case of the switch
crisisSum(analysis, withSuicidalCase) ==
    (IF analysis.sentiment = "negative" THEN 1 ELSE 0)
        - (IF analysis.sentiment = "positive" THEN 1 ELSE 0)
        + (CASE analysis.emotion = "suicidal" -> IF withSuicidalCase THEN 5 ELSE 0
             [] analysis.emotion = "depression" -> 3
             [] analysis.emotion = "anxiety" -> 2
             [] analysis.emotion = "anger" -> 2
             [] analysis.emotion = "loneliness" -> 1
             [] OTHER -> 0)
        + (IF analysis.confidence > 80 * ConfScale THEN 1 ELSE 0)
        + (IF analysis.confidence > 90 * ConfScale THEN 1 ELSE 0)
        + (IF analysis.intent = "help_request" THEN 1 ELSE 0)

\* detectCrisisLevel returning level without Math.max(0, Math.min(level, 5))
detectCrisisLevelUnclamped(analysis) == crisisSum(analysis, TRUE)

\* detectCrisisLevel whose switch has no case 'suicidal'
detectCrisisLevelNoSuicidal(analysis) == Max(0, Min(crisisSum(analysis, FALSE), 5))

\* detectCrisisLevel without the second confidence test (confidence > 90)
detectCrisisLevelSingleBoost(analysis) ==
    Max(0, Min(crisisSum(analysis, TRUE)
                   - (IF analysis.confidence > 90 * ConfScale THEN 1 ELSE 0), 5))

detectCrisisLevel(analysis) ==
    LET l1 == IF analysis.sentiment = "negative" THEN 1 ELSE 0
        l2 == l1 - (IF analysis.sentiment = "positive" THEN 1 ELSE 0)
        l3 == l2 + (CASE analysis.emotion = "suicidal" -> 5
                      [] analysis.emotion = "depression" -> 3
                      [] analysis.emotion = "anxiety" -> 2
                      [] analysis.emotion = "anger" -> 2
                      [] analysis.emotion = "loneliness" -> 1
                      [] OTHER -> 0)
        l4 == l3 + (IF analysis.confidence > 80 * ConfScale THEN 1 ELSE 0)
        l5 == l4 + (IF analysis.confidence > 90 * ConfScale THEN 1 ELSE 0)
        level == l5 + (IF analysis.intent = "help_request" THEN 1 ELSE 0)
    IN Max(0, Min(level, 5))

\* flagType with crisisLevel > 5 in place of crisisLevel >= 5
flagTypeStrict(crisisLevel) == IF crisisLevel > 5 THEN "suicidal" ELSE "crisis"

\* a flag_type graded by the level, with a grade of its own below 3
flagTypeGraded(crisisLevel) ==
    IF crisisLevel >= 5 THEN "suicidal" ELSE IF crisisLevel >= 3 THEN "crisis" ELSE "watch"

\* crisisLevel >= 5 ? 'suicidal' : 'crisis', for a level > 0
flagType(crisisLevel) == IF crisisLevel >= 5 THEN "suicidal" ELSE "crisis"

(***************************************************************************)
(* generateEnhancedResponse.                                               *)
(***************************************************************************)
responses == [
    help_request |-> [
        positive |-> "I'm glad you're reaching out! I'm here to support you. What specific help do you need?",
        negative |-> "I hear that you're struggling. You're not alone, and I'm here to help. Can you tell me more about what you're going through?",
        neutral |-> "I'm here to help you. What would you like to talk about?"],
    greeting |-> [
        positive |-> "I'm doing well, thank you for asking! I'm here to support you. How are you feeling today?",
        negative |-> "I'm here for you. I can sense you might be going through a difficult time. Would you like to talk about it?",
        neutral |-> "I'm here and ready to listen. How are you feeling today?"],
    gratitude |-> [
        positive |-> "You're very welcome! I'm glad I could help. Is there anything else you'd like to discuss?",
        negative |-> "You're welcome. I'm here whenever you need support. Remember, you don't have to go through this alone.",
        neutral |-> "You're welcome! I'm here to support you."],
    meditation |-> [
        positive |-> "That's wonderful that you're interested in meditation! It can be a great tool for mental wellness.",
        negative |-> "Meditation can be very helpful during difficult times. Would you like to try a simple breathing exercise?",
        neutral |-> "Meditation is a great practice for mental health. Would you like to learn more?"],
    sleep |-> [
        positive |-> "Good sleep is essential for mental health! I'm glad you're thinking about it.",
        negative |-> "Sleep issues can really impact our mental health. Would you like to talk about what's affecting your sleep?",
        neutral |-> "Sleep is crucial for mental wellness. How have you been sleeping lately?"],
    general |-> [
        positive |-> "That sounds wonderful! I'm here to listen and support you.",
        negative |-> "I can sense you're going through a difficult time. I'm here to listen and support you. Would you like to talk more about what's on your mind?",
        neutral |-> "I'm here to listen and support you. What's on your mind?"]]

\* the value of a missing property
Undefined == "<undefined>"

\* obj?.[key]
lookup(obj, key) == IF key \in DOMAIN obj THEN obj[key] ELSE Undefined

\* a || b evaluating to a whatever a is
orElseLeft(a, b) == a

\* a || b on strings and undefined
orElse(a, b) == IF a = Undefined \/ a = "" THEN b ELSE a

generateEnhancedResponse(message, analysis) ==
    LET exact == IF analysis.intent \in DOMAIN responses
                 THEN lookup(responses[analysis.intent], analysis.sentiment)
                 ELSE Undefined
        response == orElse(exact, lookup(responses.general, analysis.sentiment))
    IN [response |-> response,
        sentiment |-> analysis.sentiment,
        emotion |-> analysis.emotion,
        confidence |-> analysis.confidence,
        intent |-> analysis.intent]

\* the template table of the basic chat function: the same texts, for four
\* intents
basicResponses ==
    [intent \in {"help_request", "greeting", "gratitude", "general"} |-> responses[intent]]

\* generateResponse of the basic chat function
generateResponse(message, sentiment, intent) ==
    LET exact == IF intent \in DOMAIN basicResponses
                 THEN lookup(basicResponses[intent], sentiment.sentiment)
                 ELSE Undefined
        response == orElse(exact, lookup(basicResponses.general, sentiment.sentiment))
    IN [response |-> response,
        sentiment |-> sentiment.sentiment,
        emotion |-> sentiment.emotion,
        confidence |-> sentiment.confidence,
        intent |-> intent]

(***************************************************************************)
(* The enhanced chat handler.  Requests are served one after the other;    *)
(* within a request every await of a collaborator call is a step of its    *)
(* own, and a collaborator call either succeeds or returns an error.       *)
(* Ids are the positions of the rows in their tables; 0 is no id.          *)
(* req.function is the deployed chat function that serves the requests     *)
(* (the enhanced one, or the basic one of edge_function.ts, whose code up  *)
(* to the creation of the conversation is the same); req.dbAtStart is the  *)
(* stored state at the time the request arrived.                           *)
(***************************************************************************)
Users == {"alice"}
NoUser == ""

\* the message of a request body; "" stands for an empty or missing message
RequestMessages == {"", "happy", "ok", "I want to kill myself"}

NoAnalysis == [kind |-> "none"]
NoResponse == [status |-> 0, body |-> [kind |-> "none"]]

\* the CHECK constraints of crisis_flags
crisisFlagTypes == {"suicidal", "self_harm", "crisis", "concerning"}
severityLevels == 1..5

InitDb ==
    [conversations |-> <<>>, messages |-> <<>>,
     crisis_flags |-> <<>>, conversation_analytics |-> <<>>]

IdleReq ==
    [pc |-> "idle", served |-> 0, method |-> "", token |-> NoUser,
     message |-> "", conversationId |-> 0, conversation |-> 0,
     analysis |-> NoAnalysis, userMessage |-> 0, botResponse |-> NoAnalysis,
     crisisReached |-> FALSE, crisisLevel |-> 0, flagInsert |-> <<>>,
     trend |-> NoAnalysis, response |-> NoResponse,
     function |-> "enhanced", dbAtStart |-> InitDb]

Init ==
    /\ AnalyzerInit
    /\ op = "init"
    /\ input = [kind |-> "none"]
    /\ output = [kind |-> "none"]
    /\ db = InitDb
    /\ req = IdleReq

Answer(status, body) == [status |-> status, body |-> body]

ErrorBody(text) == [kind |-> "error", error |-> text]

\* the conversationId of a request body: none (0), the id of the latest
\* conversation, or an id no conversation has
ConversationIds == {0, Len(db.conversations), Len(db.conversations) + 1}

\* a POST request arrives
StartRequest ==
    /\ req.pc \in {"idle", "done"}
    /\ req.served < MaxRequests
    /\ \E token \in Users \cup {NoUser}, message \in RequestMessages,
          conversationId \in ConversationIds :
         req' = [IdleReq EXCEPT !.pc = "auth", !.served = req.served + 1,
                                !.method = "POST", !.token = token,
                                !.message = message,
                                !.conversationId = conversationId,
                                !.function = req.function, !.dbAtStart = db]
    /\ UNCHANGED <<emotionKeywords, intentKeywords, op, input, output, db>>

\* an OPTIONS request is answered 'ok' at once
Preflight ==
    /\ req.pc \in {"idle", "done"}
    /\ req.served < MaxRequests
    /\ req' = [IdleReq EXCEPT !.pc = "done", !.served = req.served + 1,
                              !.method = "OPTIONS",
                              !.response = Answer(200, [kind |-> "text", text |-> "ok"]),
                              !.function = req.function, !.dbAtStart = db]
    /\ UNCHANGED <<emotionKeywords, intentKeywords, op, input, output, db>>

Authenticate ==
    /\ req.pc = "auth"
    /\ \/ /\ req.token = NoUser
          /\ req' = [req EXCEPT !.pc = "done",
                                !.response = Answer(401, ErrorBody("Unauthorized"))]
       \/ /\ req.token # NoUser
          /\ req' = [req EXCEPT !.pc = "parse"]
    /\ UNCHANGED <<emotionKeywords, intentKeywords, op, input, output, db>>

ParseBody ==
    /\ req.pc = "parse"
    /\ \/ /\ req.message = ""
          /\ req' = [req EXCEPT !.pc = "done",
                                !.response = Answer(400, ErrorBody("Message is required"))]
       \/ /\ req.message # ""
          /\ req' = [req EXCEPT !.pc = IF req.conversationId # 0
                                       THEN "getConversation" ELSE "createConversation"]
    /\ UNCHANGED <<emotionKeywords, intentKeywords, op, input, output, db>>

title(message) ==
    SubSeq(message, 1, Min(50, Len(message))) \o (IF Len(message) > 50 THEN "..." ELSE "")

\* the lookup creating the conversation it does not find before it answers
\* 404
GetConversationOrCreate ==
    /\ req.pc = "getConversation"
    /\ LET found == {i \in 1..Len(db.conversations) :
                        /\ db.conversations[i].id = req.conversationId
                        /\ db.conversations[i].user_id = req.token}
       IN \/ /\ found # {}
             /\ req' = [req EXCEPT !.pc = "userMessage",
                                   !.conversation = req.conversationId]
             /\ UNCHANGED db
          \/ /\ req' = [req EXCEPT !.pc = "done",
                                   !.response = Answer(404, ErrorBody("Conversation not found"))]
             /\ db' = [db EXCEPT !.conversations =
                          Append(@, [id |-> Len(db.conversations) + 1, user_id |-> req.token,
                                     title |-> title(req.message)])]
    /\ UNCHANGED <<emotionKeywords, intentKeywords, op, input, output>>

\* .select('*').eq('id', ..).eq('user_id', ..).single()
GetConversation ==
    /\ req.pc = "getConversation"
    /\ LET found == {i \in 1..Len(db.conversations) :
                        /\ db.conversations[i].id = req.conversationId
                        /\ db.conversations[i].user_id = req.token}
       IN \/ /\ found # {}
             /\ req' = [req EXCEPT !.pc = "userMessage",
                                   !.conversation = req.conversationId]
          \/ \* no such row for this user, or the query failed
             /\ req' = [req EXCEPT !.pc = "done",
                                   !.response = Answer(404, ErrorBody("Conversation not found"))]
    /\ UNCHANGED <<emotionKeywords, intentKeywords, op, input, output, db>>

CreateConversation ==
    /\ req.pc = "createConversation"
    /\ \/ LET id == Len(db.conversations) + 1
          IN /\ db' = [db EXCEPT !.conversations =
                          Append(@, [id |-> id, user_id |-> req.token,
                                     title |-> title(req.message)])]
             /\ req' = [req EXCEPT !.pc = "userMessage", !.conversation = id]
       \/ /\ req' = [req EXCEPT !.pc = "done",
                                !.response = Answer(500, ErrorBody("Failed to create conversation"))]
          /\ UNCHANGED db
    /\ UNCHANGED <<emotionKeywords, intentKeywords, op, input, output>>

MessageRow(id, conversation, user, content, sender, a) ==
    [id |-> id, conversation_id |-> conversation, user_id |-> user,
     content |-> content, sender_type |-> sender,
     sentiment |-> a.sentiment, emotion |-> a.emotion,
     confidence |-> a.confidence, intent |-> a.intent]

\* analyzer.analyzeSentiment(message), then the insert of the user message
StoreUserMessage ==
    /\ req.pc = "userMessage"
    /\ LET sentimentAnalysis == analyzeSentiment(emotionKeywords, intentKeywords, req.message)
           id == Len(db.messages) + 1
       IN \/ /\ db' = [db EXCEPT !.messages =
                          Append(@, MessageRow(id, req.conversation, req.token,
                                               req.message, "user", sentimentAnalysis))]
             /\ req' = [req EXCEPT !.pc = "botMessage", !.analysis = sentimentAnalysis,
                                   !.userMessage = id]
          \/ /\ req' = [req EXCEPT !.pc = "done", !.analysis = sentimentAnalysis,
                                   !.response = Answer(500, ErrorBody("Failed to store message"))]
             /\ UNCHANGED db
    /\ UNCHANGED <<emotionKeywords, intentKeywords, op, input, output>>

\* generateEnhancedResponse(message, sentimentAnalysis), then the insert of
\* the bot message
StoreBotMessage ==
    /\ req.pc = "botMessage"
    /\ LET botResponse == generateEnhancedResponse(req.message, req.analysis)
           id == Len(db.messages) + 1
       IN \/ /\ db' = [db EXCEPT !.messages =
                          Append(@, MessageRow(id, req.conversation, req.token,
                                               botResponse.response, "bot", botResponse))]
             /\ req' = [req EXCEPT !.pc = "crisis", !.botResponse = botResponse]
          \/ /\ req' = [req EXCEPT !.pc = "done", !.botResponse = botResponse,
                                   !.response = Answer(500, ErrorBody("Failed to store bot response"))]
             /\ UNCHANGED db
    /\ UNCHANGED <<emotionKeywords, intentKeywords, op, input, output>>

\* the test with crisisLevel >= 0 in place of crisisLevel > 0
shouldFlagFromZero(crisisLevel) == crisisLevel >= 0

\* if (crisisLevel > 0)
shouldFlag(crisisLevel) == crisisLevel > 0

\* detectCrisisLevel(sentimentAnalysis) and, for a level > 0, the insert
\* into crisis_flags, whose result the handler does not look at
DetectCrisis ==
    /\ req.pc = "crisis"
    /\ LET crisisLevel == detectCrisisLevel(req.analysis)
           row == [conversation_id |-> req.conversation, user_id |-> req.token,
                   message_id |-> req.userMessage,
                   flag_type |-> flagType(crisisLevel),
                   severity_level |-> crisisLevel,
                   emotion |-> req.analysis.emotion,
                   confidence |-> req.analysis.confidence]
       IN \/ /\ shouldFlag(crisisLevel)
             /\ req' = [req EXCEPT !.pc = "analytics", !.crisisReached = TRUE,
                                   !.crisisLevel = crisisLevel, !.flagInsert = <<row>>]
             /\ \/ db' = [db EXCEPT !.crisis_flags = Append(@, row)]
                \/ UNCHANGED db
          \/ /\ ~shouldFlag(crisisLevel)
             /\ req' = [req EXCEPT !.pc = "analytics", !.crisisReached = TRUE,
                                   !.crisisLevel = crisisLevel]
             /\ UNCHANGED db
    /\ UNCHANGED <<emotionKeywords, intentKeywords, op, input, output>>

\* the rows of seq q satisfying Test, in order
RECURSIVE SelectWhere(_, _)
SelectWhere(q, conversation) ==
    IF q = <<>> THEN <<>>
    ELSE (IF Head(q).conversation_id = conversation THEN <<Head(q)>> ELSE <<>>)
             \o SelectWhere(Tail(q), conversation)

RECURSIVE sumConfidence(_)
sumConfidence(messages) ==
    IF messages = <<>> THEN 0
    ELSE Head(messages).confidence + sumConfidence(Tail(messages))

\* updateEnhancedAnalytics up to its upsert: the select of the
\* conversation's messages and analyzeConversationHistory on them; what
\* analyzeConversationHistory throws is caught by the handler (status 500)
SelectMessages ==
    /\ req.pc = "analytics"
    /\ \/ LET messages == SelectWhere(db.messages, req.conversation)
              analysis == analyzeConversationHistory(emotionKeywords, intentKeywords, messages)
          IN IF Len(messages) > 0
             THEN CASE analysis.kind = "throw" ->
                         req' = [req EXCEPT !.pc = "done",
                                            !.response = Answer(500, ErrorBody(analysis.error))]
                    [] analysis.kind = "null" ->
                         req' = [req EXCEPT !.pc = "respond"]
                    [] OTHER ->
                         req' = [req EXCEPT !.pc = "upsert",
                                   !.trend = [dominant_sentiment |-> analysis.value.dominant_sentiment,
                                              dominant_emotion |-> analysis.value.dominant_emotion,
                                              message_count |-> analysis.value.message_count,
                                              confidence_sum |-> sumConfidence(messages),
                                              confidence_count |-> Len(messages)]]
             ELSE req' = [req EXCEPT !.pc = "respond"]
       \/ \* the select failed: data is null
          req' = [req EXCEPT !.pc = "respond"]
    /\ UNCHANGED <<emotionKeywords, intentKeywords, op, input, output, db>>

\* the upsert into conversation_analytics, whose result is not looked at
UpsertAnalytics ==
    /\ req.pc = "upsert"
    /\ \/ db' = [db EXCEPT !.conversation_analytics =
                    Append(@, [conversation_id |-> req.conversation,
                               user_id |-> req.token] @@ req.trend)]
       \/ UNCHANGED db
    /\ req' = [req EXCEPT !.pc = "respond"]
    /\ UNCHANGED <<emotionKeywords, intentKeywords, op, input, output>>

Respond ==
    /\ req.pc = "respond"
    /\ req' = [req EXCEPT !.pc = "done",
                 !.response = Answer(200,
                     [kind |-> "chat",
                      response |-> req.botResponse.response,
                      conversation_id |-> req.conversation,
                      sentiment |-> req.botResponse.sentiment,
                      emotion |-> req.botResponse.emotion,
                      confidence |-> req.botResponse.confidence,
                      intent |-> req.botResponse.intent,
                      crisis_detected |-> (req.crisisLevel > 0),
                      crisis_level |-> req.crisisLevel])]
    /\ UNCHANGED <<emotionKeywords, intentKeywords, op, input, output, db>>

Next ==
    \/ StartRequest \/ Preflight \/ Authenticate \/ ParseBody
    \/ GetConversation \/ CreateConversation
    \/ StoreUserMessage \/ StoreBotMessage \/ DetectCrisis
    \/ SelectMessages \/ UpsertAnalytics \/ Respond

Spec == Init /\ [][Next]_vars

(***************************************************************************)
(* The basic chat function (edge_function.ts).                             *)
(***************************************************************************)
basicPositiveWords == <<"happy", "good", "great", "wonderful", "excellent", "amazing", "love", "joy">>
basicNegativeWords == <<"sad", "bad", "terrible", "awful", "hate", "angry", "depressed", "suicidal">>

\* analyzeSentiment of the basic chat function, on the raw text
basicAnalyzeSentiment(text) ==
    LET words == split(toLowerCase(text))
        positiveCount == CountIf(words, LAMBDA w : SeqIncludes(basicPositiveWords, w))
        negativeCount == CountIf(words, LAMBDA w : SeqIncludes(basicNegativeWords, w))
    IN IF negativeCount > positiveCount
       THEN [sentiment |-> "negative", emotion |-> "depression", confidence |-> 75 * ConfScale]
       ELSE IF positiveCount > negativeCount
       THEN [sentiment |-> "positive", emotion |-> "happiness", confidence |-> 80 * ConfScale]
       ELSE [sentiment |-> "neutral", emotion |-> "neutral", confidence |-> 60 * ConfScale]

analyzeIntent(text) ==
    LET text_lower == toLowerCase(text)
    IN IF includes(text_lower, "help") \/ includes(text_lower, "support") THEN "help_request"
       ELSE IF includes(text_lower, "how are you") \/ includes(text_lower, "feeling") THEN "greeting"
       ELSE IF includes(text_lower, "thank") THEN "gratitude"
       ELSE "general"

\* the emotion the handler would store and test if it used the result of
\* analyzeEmotion
detectedEmotion(sentiment, emotion) == emotion

\* the emotion the handler stores with the user message and tests for a
\* crisis: sentiment.emotion (the result of analyzeEmotion is not used)
recordedEmotion(sentiment, emotion) == sentiment.emotion

\* analyzeSentiment, analyzeEmotion, analyzeIntent, then the insert of the
\* user message
BasicStoreUserMessage ==
    /\ req.pc = "userMessage"
    /\ LET sentiment == basicAnalyzeSentiment(req.message)
           emotion == analyzeEmotion(req.message)
           intent == analyzeIntent(req.message)
           analysis == [sentiment |-> sentiment.sentiment,
                        emotion |-> recordedEmotion(sentiment, emotion),
                        confidence |-> sentiment.confidence,
                        intent |-> intent]
           id == Len(db.messages) + 1
       IN \/ /\ db' = [db EXCEPT !.messages =
                          Append(@, MessageRow(id, req.conversation, req.token,
                                               req.message, "user", analysis))]
             /\ req' = [req EXCEPT !.pc = "botMessage", !.analysis = analysis,
                                   !.userMessage = id]
          \/ /\ req' = [req EXCEPT !.pc = "done", !.analysis = analysis,
                                   !.response = Answer(500, ErrorBody("Failed to store message"))]
             /\ UNCHANGED db
    /\ UNCHANGED <<emotionKeywords, intentKeywords, op, input, output>>

\* generateResponse(message, sentiment, intent), then the insert of the
\* bot message
BasicStoreBotMessage ==
    /\ req.pc = "botMessage"
    /\ LET botResponse == generateResponse(req.message, req.analysis, req.analysis.intent)
           id == Len(db.messages) + 1
       IN \/ /\ db' = [db EXCEPT !.messages =
                          Append(@, MessageRow(id, req.conversation, req.token,
                                               botResponse.response, "bot", botResponse))]
             /\ req' = [req EXCEPT !.pc = "crisis", !.botResponse = botResponse]
          \/ /\ req' = [req EXCEPT !.pc = "done", !.botResponse = botResponse,
                                   !.response = Answer(500, ErrorBody("Failed to store bot response"))]
             /\ UNCHANGED db
    /\ UNCHANGED <<emotionKeywords, intentKeywords, op, input, output>>

\* sentiment.emotion === 'suicidal' || sentiment.emotion === 'crisis'
basicCrisisDetected(emotion) == emotion = "suicidal" \/ emotion = "crisis"

\* the crisis check: for a suicidal or crisis emotion the insert into
\* crisis_flags, whose result the handler does not look at
BasicCheckCrisis ==
    /\ req.pc = "crisis"
    /\ LET row == [conversation_id |-> req.conversation, user_id |-> req.token,
                   message_id |-> req.userMessage,
                   flag_type |-> req.analysis.emotion,
                   severity_level |-> IF req.analysis.confidence > 70 * ConfScale THEN 5 ELSE 3,
                   emotion |-> req.analysis.emotion,
                   confidence |-> req.analysis.confidence]
       IN \E accepted \in BOOLEAN :
            /\ req' = [req EXCEPT !.pc = "analytics", !.crisisReached = TRUE,
                          !.flagInsert = IF basicCrisisDetected(req.analysis.emotion)
                                         THEN <<row>> ELSE <<>>]
            /\ db' = IF basicCrisisDetected(req.analysis.emotion) /\ accepted
                     THEN [db EXCEPT !.crisis_flags = Append(@, row)]
                     ELSE db
    /\ UNCHANGED <<emotionKeywords, intentKeywords, op, input, output>>

\* the labels in the order ORDER BY gives them
sentimentsSorted == <<"negative", "neutral", "positive">>
emotionsSorted ==
    <<"anger", "anxiety", "depression", "happiness", "loneliness", "neutral", "suicidal">>

\* MODE() WITHIN GROUP (ORDER BY ..): the most frequent value, the first in
\* the order among equally frequent ones; "NULL" when there is no row
sqlMode(values, sorted) ==
    LET count(v) == Cardinality({i \in 1..Len(values) : values[i] = v})
        modes == {k \in 1..Len(sorted) :
                     /\ count(sorted[k]) > 0
                     /\ \A l \in 1..Len(sorted) : count(sorted[l]) <= count(sorted[k])}
    IN IF modes = {} THEN "NULL"
       ELSE sorted[CHOOSE k \in modes : \A l \in modes : k <= l]

\* get_conversation_summary(conv_id) over the conversation's messages
get_conversation_summary(conversation) ==
    LET messages == SelectWhere(db.messages, conversation)
    IN [message_count |-> Len(messages),
        dominant_sentiment |-> sqlMode([i \in 1..Len(messages) |-> messages[i].sentiment],
                                       sentimentsSorted),
        dominant_emotion |-> sqlMode([i \in 1..Len(messages) |-> messages[i].emotion],
                                     emotionsSorted),
        confidence_sum |-> sumConfidence(messages),
        confidence_count |-> Len(messages)]

\* updateConversationAnalytics up to its upsert: the rpc
BasicGetSummary ==
    /\ req.pc = "analytics"
    /\ \/ req' = [req EXCEPT !.pc = "upsert",
                              !.trend = get_conversation_summary(req.conversation)]
       \/ \* the rpc failed: data is null
          req' = [req EXCEPT !.pc = "respond"]
    /\ UNCHANGED <<emotionKeywords, intentKeywords, op, input, output, db>>

BasicRespond ==
    /\ req.pc = "respond"
    /\ req' = [req EXCEPT !.pc = "done",
                 !.response = Answer(200,
                     [kind |-> "chat",
                      response |-> req.botResponse.response,
                      conversation_id |-> req.conversation,
                      sentiment |-> req.botResponse.sentiment,
                      emotion |-> req.botResponse.emotion,
                      confidence |-> req.botResponse.confidence,
                      intent |-> req.botResponse.intent,
                      crisis_detected |-> basicCrisisDetected(req.analysis.emotion)])]
    /\ UNCHANGED <<emotionKeywords, intentKeywords, op, input, output, db>>

NextBasic ==
    \/ StartRequest \/ Preflight \/ Authenticate \/ ParseBody
    \/ GetConversation \/ CreateConversation
    \/ BasicStoreUserMessage \/ BasicStoreBotMessage \/ BasicCheckCrisis
    \/ BasicGetSummary \/ UpsertAnalytics \/ BasicRespond

(***************************************************************************)
(* SpecHandlers: the requests are served by one of the two chat functions, *)
(* whichever is deployed.                                                  *)
(***************************************************************************)
InitHandlers ==
    /\ AnalyzerInit
    /\ op = "init"
    /\ input = [kind |-> "none"]
    /\ output = [kind |-> "none"]
    /\ db = InitDb
    /\ \E function \in {"enhanced", "basic"} : req = [IdleReq EXCEPT !.function = function]

NextHandlers ==
    \/ req.function = "enhanced" /\ Next
    \/ req.function = "basic" /\ NextBasic

SpecHandlers == InitHandlers /\ [][NextHandlers]_vars

(***************************************************************************)
(* Inputs.  A text is the concatenation of at most MaxAtoms atoms of the   *)
(* vocabulary, or one of the scenario texts.                               *)
(***************************************************************************)
Vocabulary == {" ", "!", "ok", "Sad", "happy", "grateful", "alone", "suicide", "help", "I am"}

Scenarios ==
    {"", "I want to kill myself", "I am happy and grateful", " \t\n", "42 + 1 = ?!",
     "I am sad and alone, I want to kill myself", "Can we talk?",
     "I love you but I want to die", "suicide happy grateful"}

RECURSIVE concat(_)
concat(q) == IF q = <<>> THEN "" ELSE Head(q) \o concat(Tail(q))

Texts == {concat(q) : q \in UNION {[1..n -> Vocabulary] : n \in 0..MaxAtoms}} \cup Scenarios

SuicidalKeywords ==
    LET entry == CHOOSE i \in 1..Len(InitEmotionKeywords) : InitEmotionKeywords[i].name = "suicidal"
    IN {InitEmotionKeywords[entry].keywords[j] : j \in 1..Len(InitEmotionKeywords[entry].keywords)}

\* a Classification without the per-scorer details
Classification(a) ==
    [sentiment |-> a.sentiment, emotion |-> a.emotion, intent |-> a.intent,
     confidence |-> a.confidence]

Classifications ==
    [sentiment : Sentiments, emotion : Emotions, intent : Intents,
     confidence : 0..(100 * ConfScale)]

NoOutput == [kind |-> "none"]

(***************************************************************************)
(* SpecCrisis: detectCrisisLevel applied to every Classification.          *)
(***************************************************************************)
InitCrisis ==
    /\ AnalyzerInit
    /\ op = "init"
    /\ input \in Classifications
    /\ output = NoOutput
    /\ db = InitDb /\ req = IdleReq

AssessCrisisOnly ==
    /\ op = "init"
    /\ op' = "AssessCrisis"
    /\ output' = [kind |-> "level", level |-> detectCrisisLevel(input)]
    /\ UNCHANGED <<emotionKeywords, intentKeywords, input, db, req>>

NextCrisis == AssessCrisisOnly

SpecCrisis == InitCrisis /\ [][NextCrisis]_vars

(***************************************************************************)
(* SpecClassify: one text through Classify (analyzeSentiment), then        *)
(* AssessCrisis (detectCrisisLevel); then, for an otherwise-neutral text   *)
(* (sentiment and emotion both neutral), the same for the text with a      *)
(* suicidal-lexicon keyword added as a word of its own.                    *)
(***************************************************************************)
InitClassify ==
    /\ AnalyzerInit
    /\ op = "init"
    /\ \E t \in Texts : input = [text |-> t, added |-> "", whole |-> t]
    /\ output = NoOutput
    /\ db = InitDb /\ req = IdleReq

Classify ==
    /\ op = "init"
    /\ op' = "Classify"
    /\ output' = [kind |-> "analysis",
                  analysis |-> analyzeSentiment(emotionKeywords, intentKeywords, input.text)]
    /\ UNCHANGED <<emotionKeywords, intentKeywords, input, db, req>>

AssessCrisis ==
    /\ op = "Classify"
    /\ op' = "AssessCrisis"
    /\ output' = [kind |-> "assessment",
                  analysis |-> output.analysis,
                  level |-> detectCrisisLevel(output.analysis)]
    /\ UNCHANGED <<emotionKeywords, intentKeywords, input, db, req>>

\* the emotion detector of the basic chat function on the same text
ClassifyBasic ==
    /\ op = "init"
    /\ op' = "ClassifyBasic"
    /\ output' = [kind |-> "basic", emotion |-> analyzeEmotion(input.text)]
    /\ UNCHANGED <<emotionKeywords, intentKeywords, input, db, req>>

OtherwiseNeutral(a) == a.sentiment = "neutral" /\ a.emotion = "neutral"

AddKeyword ==
    /\ op = "AssessCrisis"
    /\ OtherwiseNeutral(output.analysis)
    /\ \E k \in SuicidalKeywords, atEnd \in BOOLEAN :
         LET whole == IF atEnd THEN input.text \o " " \o k ELSE k \o " " \o input.text
             with == analyzeSentiment(emotionKeywords, intentKeywords, whole)
         IN /\ input' = [text |-> input.text, added |-> k, whole |-> whole]
            /\ output' = [kind |-> "comparison",
                          analysis |-> output.analysis,
                          level |-> output.level,
                          analysisWith |-> with,
                          levelWith |-> detectCrisisLevel(with)]
    /\ op' = "AddKeyword"
    /\ UNCHANGED <<emotionKeywords, intentKeywords, db, req>>

NextClassify == Classify \/ ClassifyBasic \/ AssessCrisis \/ AddKeyword

SpecClassify == InitClassify /\ [][NextClassify]_vars

(***************************************************************************)
(* SpecAnalyzer: any sequence of Classify and Aggregate calls on the one   *)
(* shared analyzer.  The message list Aggregate is given grows one         *)
(* message at a time, as the stored history of a conversation does.        *)
(***************************************************************************)
UserTexts == {"Sad", "happy", "ok", "worried"}

BotReply == "That sounds wonderful! I'm here to listen and support you."

HistoryMessages ==
    {[sender_type |-> "user", content |-> t] : t \in UserTexts}
        \cup {[sender_type |-> "bot", content |-> BotReply]}

InitAnalyzer ==
    /\ AnalyzerInit
    /\ op = "init"
    /\ input = [messages |-> <<>>, text |-> ""]
    /\ output = NoOutput
    /\ db = InitDb /\ req = IdleReq

AppendMessage ==
    /\ Len(input.messages) < MaxMessages
    /\ \E m \in HistoryMessages :
         input' = [input EXCEPT !.messages = Append(@, m)]
    /\ op' = "Append"
    /\ output' = NoOutput
    /\ UNCHANGED <<emotionKeywords, intentKeywords, db, req>>

\* a Classify call that also drops the keyword list it consulted last
\* (a cache trimmed in place)
ClassifyCallForgetting ==
    /\ \E t \in UserTexts :
         /\ input' = [input EXCEPT !.text = t]
         /\ output' = [kind |-> "analysis",
                       analysis |-> analyzeSentiment(emotionKeywords, intentKeywords, t)]
    /\ op' = "Classify"
    /\ emotionKeywords' = SubSeq(emotionKeywords, 1, Len(emotionKeywords) - 1)
    /\ UNCHANGED <<intentKeywords, db, req>>

ClassifyCall ==
    /\ \E t \in UserTexts :
         /\ input' = [input EXCEPT !.text = t]
         /\ output' = [kind |-> "analysis",
                       analysis |-> analyzeSentiment(emotionKeywords, intentKeywords, t)]
    /\ op' = "Classify"
    /\ UNCHANGED <<emotionKeywords, intentKeywords, db, req>>

AggregateCall ==
    /\ op' = "Aggregate"
    /\ output' = analyzeConversationHistory(emotionKeywords, intentKeywords, input.messages)
    /\ UNCHANGED <<emotionKeywords, intentKeywords, input, db, req>>

NextAnalyzer == AppendMessage \/ ClassifyCall \/ AggregateCall

SpecAnalyzer == InitAnalyzer /\ [][NextAnalyzer]_vars

(***************************************************************************)
(* SpecRespond: the response selection of both chat functions applied to   *)
(* every intent (one of them without a template entry) and sentiment.      *)
(***************************************************************************)
UnknownIntent == "journaling"

ResponseInputs ==
    [sentiment : Sentiments, emotion : Emotions,
     intent : Intents \cup {UnknownIntent},
     confidence : {0, 60 * ConfScale, 100 * ConfScale}]

InitRespond ==
    /\ AnalyzerInit
    /\ op = "init"
    /\ input \in ResponseInputs
    /\ output = NoOutput
    /\ db = InitDb /\ req = IdleReq

SelectResponse ==
    /\ op = "init"
    /\ op' = "SelectResponse"
    /\ output' = [kind |-> "response", reply |-> generateEnhancedResponse("", input)]
    /\ UNCHANGED <<emotionKeywords, intentKeywords, input, db, req>>

SelectResponseBasic ==
    /\ op = "init"
    /\ op' = "SelectResponseBasic"
    /\ output' = [kind |-> "response",
                  reply |-> generateResponse("", [sentiment |-> input.sentiment,
                                                  emotion |-> input.emotion,
                                                  confidence |-> input.confidence],
                                             input.intent)]
    /\ UNCHANGED <<emotionKeywords, intentKeywords, input, db, req>>

NextRespond == SelectResponse \/ SelectResponseBasic

SpecRespond == InitRespond /\ [][NextRespond]_vars

(***************************************************************************)
(* SpecConfidence: calculateConfidence applied to every combined sentiment *)
(* confidence votes/scorers of up to MaxScorers scorers, every emotion and *)
(* every intent.                                                           *)
(***************************************************************************)
CombinedSentiments ==
    UNION {[sentiment : Sentiments, num : 0..den, den : {den}] : den \in 1..MaxScorers}

InitConfidence ==
    /\ AnalyzerInit
    /\ op = "init"
    /\ input \in [sentiment : CombinedSentiments, emotion : Emotions, intent : Intents]
    /\ output = NoOutput
    /\ db = InitDb /\ req = IdleReq

CalculateConfidence ==
    /\ op = "init"
    /\ op' = "CalculateConfidence"
    /\ output' = [kind |-> "confidence",
                  confidence |-> calculateConfidence(input.sentiment, input.emotion, input.intent)]
    /\ UNCHANGED <<emotionKeywords, intentKeywords, input, db, req>>

NextConfidence == CalculateConfidence

SpecConfidence == InitConfidence /\ [][NextConfidence]_vars

(***************************************************************************)
(* SpecCombine: combineSentiments applied to every triple of scorer        *)
(* results; a scorer result carries a label and the scorer's own score.    *)
(***************************************************************************)
ScorerResults == [sentiment : Sentiments, num : {0, 1}, den : {1}]

InitCombine ==
    /\ AnalyzerInit
    /\ op = "init"
    /\ input \in [scores : [1..ConfScale -> ScorerResults]]
    /\ output = NoOutput
    /\ db = InitDb /\ req = IdleReq

Combine ==
    /\ op = "init"
    /\ op' = "Combine"
    /\ output' = [kind |-> "combined", combined |-> combineSentiments(input.scores)]
    /\ UNCHANGED <<emotionKeywords, intentKeywords, input, db, req>>

NextCombine == Combine

SpecCombine == InitCombine /\ [][NextCombine]_vars

(***************************************************************************)
(* Claims.                                                                 *)
(***************************************************************************)

\* C1: for every Classification (every combination of sentiment, emotion,
\* intent and confidence) detectCrisisLevel returns an integer level with
\* 0 <= level <= 5.
Theorem_C1 ==
    op = "AssessCrisis" /\ output.kind = "level" => output.level \in 0..5

\* the upper clamp acts: the additive rules give 10 and the level is 5
Witness_C1 ==
    /\ op = "AssessCrisis" /\ output.kind = "level"
    /\ input.sentiment = "negative" /\ input.emotion = "suicidal"
    /\ input.intent = "help_request" /\ input.confidence > 90 * ConfScale
    /\ output.level = 5

\* calculateConfidence stays in [0, 100] for every vote count of the three
\* scorers, every emotion and every intent
ConfidenceInRangeForAllVotes ==
    \A votes \in 0..ConfScale, emotion \in Emotions, intent \in Intents :
        calculateConfidence([sentiment |-> "neutral", num |-> votes, den |-> ConfScale],
                            emotion, intent) \in 0..(100 * ConfScale)

\* C2: for every input text the confidence Classify returns lies in
\* [0, 100], whatever the combined sentiment confidence, emotion and
\* intent are.
Theorem_C2 ==
    /\ op \in {"Classify", "AssessCrisis", "AddKeyword"} =>
           output.analysis.confidence \in 0..(100 * ConfScale)
    /\ op = "AddKeyword" => output.analysisWith.confidence \in 0..(100 * ConfScale)
    /\ ConfidenceInRangeForAllVotes

\* the clamp acts: three neutral votes (100) plus the help_request boost
Witness_C2 ==
    /\ op = "Classify"
    /\ output.analysis.scores.combined.num = 3
    /\ output.analysis.intent = "help_request"
    /\ output.analysis.confidence = 100 * ConfScale

\* C3: Classify("I want to kill myself") yields emotion suicidal, and
\* AssessCrisis of that Classification yields level 5 with flagType
\* "suicidal".
Theorem_C3 ==
    input.text = "I want to kill myself" =>
        /\ op = "Classify" => output.analysis.emotion = "suicidal"
        /\ op = "AssessCrisis" =>
               /\ output.analysis.emotion = "suicidal"
               /\ output.level = 5
               /\ flagType(output.level) = "suicidal"

Witness_C3 ==
    /\ op = "AssessCrisis"
    /\ input.text = "I want to kill myself"
    /\ output.level = 5

\* no word, keyword or pattern of any lexicon matches the cleaned text
NoLexiconMatch(text) ==
    LET cleaned == cleanText(text)
        words == split(cleaned)
        all == vaderPositiveWords \o vaderNegativeWords
        keys == positiveKeywords \o negativeKeywords
    IN /\ \A i \in 1..Len(words) : ~SeqIncludes(all, words[i])
       /\ \A i \in 1..Len(keys) : ~includes(cleaned, keys[i])
       /\ \A i \in 1..Len(positivePatterns) : ~patternTest(positivePatterns[i], cleaned)
       /\ \A i \in 1..Len(negativePatterns) : ~patternTest(negativePatterns[i], cleaned)
       /\ keywordScores(emotionKeywords, cleaned) = <<>>
       /\ keywordScores(intentKeywords, cleaned) = <<>>

\* C4: for empty text, whitespace-only text, text made only of
\* non-alphabetic characters and text in which no lexicon entry matches,
\* Classify returns exactly {sentiment: neutral, emotion: neutral,
\* intent: general, confidence: 0}.
Counterexample_C4 ==
    op = "Classify" /\ NoLexiconMatch(input.text) =>
        Classification(output.analysis) =
            [sentiment |-> "neutral", emotion |-> "neutral",
             intent |-> "general", confidence |-> 0]

\* the crisis_flags rows stored for the user message of the request
FlagsOfRequest ==
    {i \in 1..Len(db.crisis_flags) : db.crisis_flags[i].message_id = req.userMessage}

Theorem_C6 ==
    op = "AddKeyword" /\ OtherwiseNeutral(output.analysis) =>
        output.levelWith > output.level

\* the highest level an otherwise-neutral text has (help_request, 3)
Witness_C6 ==
    /\ op = "AddKeyword"
    /\ OtherwiseNeutral(output.analysis)
    /\ output.analysis.intent = "help_request"
    /\ output.level = 3
    /\ output.levelWith = 5

\* C7: Classify is deterministic and has no hidden state: after any
\* sequence of earlier Classify and Aggregate calls on the shared analyzer
\* a call returns what the freshly constructed analyzer returns for that
\* text (so two calls with the same text return equal Classifications),
\* and no call modifies the emotion/intent lexicons.
Theorem_C7 ==
    /\ emotionKeywords = InitEmotionKeywords
    /\ intentKeywords = InitIntentKeywords
    /\ op = "Classify" =>
           output.analysis = analyzeSentiment(InitEmotionKeywords, InitIntentKeywords, input.text)

\* a Classify call made after an Aggregate call over a full history
Witness_C7 ==
    /\ op = "Classify"
    /\ Len(input.messages) = MaxMessages
    /\ input.text = "Sad"
    /\ output.analysis.emotion = "depression"

\* C8 as stated: Aggregate on an empty message list returns a trend with
\* empty sentiment and emotion distributions, no dominant label and
\* message_count = 0.
Counterexample_C8 ==
    op = "Aggregate" /\ input.messages = <<>> =>
        /\ output.kind = "return"
        /\ output.value.sentiment_distribution = <<>>
        /\ output.value.emotion_distribution = <<>>
        /\ output.value.message_count = 0

\* C8 (amended): Aggregate on an empty message list does not fail; it
\* returns null, with no distributions, no dominant label and no
\* message_count.
Theorem_C8 ==
    op = "Aggregate" /\ input.messages = <<>> => output = Null

Witness_C8 ==
    op = "Aggregate" /\ input.messages = <<>> /\ output.kind = "null"

\* C9: Aggregate is total: for every message list, including a non-empty
\* list with no user-authored entry, it returns a result and never throws.
Counterexample_C9 ==
    op = "Aggregate" => output.kind # "throw"

\* the list with every non-user entry removed
RECURSIVE userOnly(_)
userOnly(messages) ==
    IF messages = <<>> THEN <<>>
    ELSE (IF Head(messages).sender_type = "user" THEN <<Head(messages)>> ELSE <<>>)
             \o userOnly(Tail(messages))

\* C10: Aggregate ignores non-user-authored entries: for every message
\* list the returned trend (distributions, dominant labels and
\* message_count) equals the trend returned for the same list with every
\* non-user entry removed.
Counterexample_C10 ==
    op = "Aggregate" =>
        output = analyzeConversationHistory(emotionKeywords, intentKeywords,
                                            userOnly(input.messages))

\* the user-authored entries' labels (field "sentiment" or "emotion"), as a
\* fresh analyzer classifies them
UserIndices(messages) == {i \in 1..Len(messages) : messages[i].sender_type = "user"}

LabelOf(message, field) ==
    analyzeSentiment(InitEmotionKeywords, InitIntentKeywords, message.content)[field]

\* dist maps every label of the user messages to its number of occurrences
IsDistributionOf(dist, messages, field) ==
    /\ \A i \in UserIndices(messages) :
           \E k \in 1..Len(dist) :
               /\ dist[k][1] = LabelOf(messages[i], field)
               /\ dist[k][2] = Cardinality({j \in UserIndices(messages) :
                                   LabelOf(messages[j], field) = dist[k][1]})
    /\ \A k \in 1..Len(dist) :
           /\ \E i \in UserIndices(messages) : LabelOf(messages[i], field) = dist[k][1]
           /\ \A l \in 1..Len(dist) : l # k => dist[l][1] # dist[k][1]

\* label is in dist and no label of dist has a strictly larger count
IsMaximalIn(dist, label) ==
    \E k \in 1..Len(dist) :
        /\ dist[k][1] = label
        /\ \A l \in 1..Len(dist) : dist[l][2] <= dist[k][2]

AnxietyAnxietyHappiness ==
    << [sender_type |-> "user", content |-> "worried"],
       [sender_type |-> "user", content |-> "worried"],
       [sender_type |-> "user", content |-> "happy"] >>

\* C11: for every message list with at least one user message Aggregate
\* returns a trend whose distributions count the user messages' labels and
\* whose dominant_sentiment and dominant_emotion have a maximal count in
\* their distribution; emotions [anxiety, anxiety, happiness] give
\* dominant_emotion = anxiety.
Theorem_C11 ==
    op = "Aggregate" /\ UserIndices(input.messages) # {} =>
        /\ output.kind = "return"
        /\ IsDistributionOf(output.value.sentiment_distribution, input.messages, "sentiment")
        /\ IsDistributionOf(output.value.emotion_distribution, input.messages, "emotion")
        /\ IsMaximalIn(output.value.sentiment_distribution, output.value.dominant_sentiment)
        /\ IsMaximalIn(output.value.emotion_distribution, output.value.dominant_emotion)
        /\ input.messages = AnxietyAnxietyHappiness =>
               output.value.dominant_emotion = "anxiety"

Witness_C11 ==
    /\ op = "Aggregate"
    /\ input.messages = AnxietyAnxietyHappiness
    /\ output.kind = "return"
    /\ output.value.emotion_distribution = << <<"anxiety", 2>>, <<"happiness", 1>> >>
    /\ output.value.dominant_emotion = "anxiety"

\* the labels of dist whose count is the highest
TiedLabels(dist) ==
    {dist[k][1] : k \in {k \in 1..Len(dist) : \A l \in 1..Len(dist) : dist[l][2] <= dist[k][2]}}

\* the Signal Combiner's order: positive, then negative, then neutral
SentimentTieBreak(labels) ==
    IF "positive" \in labels THEN "positive"
    ELSE IF "negative" \in labels THEN "negative" ELSE "neutral"

\* the emotion detector's choice among tied categories of its lexicon: the
\* one its reduce keeps
EmotionTieBreak(labels) ==
    LET tied == SelectSeq([i \in 1..Len(InitEmotionKeywords) |-> <<InitEmotionKeywords[i].name, 1>>],
                          LAMBDA e : e[1] \in labels)
    IN reduceGreater(Head(tied), Tail(tied))[1]

\* C12: when several labels tie for the highest count, Aggregate picks the
\* dominant label as the per-message components do: for sentiment in the
\* order positive > negative > neutral, for emotion in the emotion
\* detector's tie-break order.
Counterexample_C12 ==
    op = "Aggregate" /\ output.kind = "return" =>
        /\ Cardinality(TiedLabels(output.value.sentiment_distribution)) > 1 =>
               output.value.dominant_sentiment =
                   SentimentTieBreak(TiedLabels(output.value.sentiment_distribution))
        /\ /\ Cardinality(TiedLabels(output.value.emotion_distribution)) > 1
           /\ "neutral" \notin TiedLabels(output.value.emotion_distribution)
           => output.value.dominant_emotion =
                  EmotionTieBreak(TiedLabels(output.value.emotion_distribution))

\* the reorderings of a message list
Reorderings(messages) ==
    {[i \in 1..Len(messages) |-> messages[p[i]]] : p \in Permutations(1..Len(messages))}

Entries(dist) == {dist[k] : k \in 1..Len(dist)}

\* two results of Aggregate with the same label -> count maps and the same
\* dominant labels
SameTrend(a, b) ==
    /\ a.kind = b.kind
    /\ a.kind = "return" =>
           /\ Entries(a.value.sentiment_distribution) = Entries(b.value.sentiment_distribution)
           /\ Entries(a.value.emotion_distribution) = Entries(b.value.emotion_distribution)
           /\ a.value.dominant_sentiment = b.value.dominant_sentiment
           /\ a.value.dominant_emotion = b.value.dominant_emotion

\* C13: for every message list and every permutation of it Aggregate
\* returns the same distributions and the same dominant sentiment and
\* dominant emotion, including when counts tie.
Counterexample_C13 ==
    op = "Aggregate" =>
        \A reordered \in Reorderings(input.messages) :
            SameTrend(output,
                      analyzeConversationHistory(emotionKeywords, intentKeywords, reordered))

\* the template the claim names: the exact (intent, sentiment) entry of the
\* table when it exists, otherwise the general intent's entry
TemplateFor(table, intent, sentiment) ==
    IF intent \in DOMAIN table /\ sentiment \in DOMAIN table[intent]
    THEN table[intent][sentiment]
    ELSE table["general"][sentiment]

\* C14: for every intent (including an intent with no template entry) and
\* every sentiment in {positive, negative, neutral} SelectResponse returns
\* a non-empty template: the exact (intent, sentiment) entry when it
\* exists, otherwise the general intent's template for that sentiment.
Theorem_C14 ==
    /\ op \in {"SelectResponse", "SelectResponseBasic"} =>
           /\ output.reply.response # Undefined
           /\ Len(output.reply.response) > 0
    /\ op = "SelectResponse" =>
           output.reply.response = TemplateFor(responses, input.intent, input.sentiment)
    /\ op = "SelectResponseBasic" =>
           output.reply.response = TemplateFor(basicResponses, input.intent, input.sentiment)

\* the fallback acts: an intent without a template entry gets the general
\* intent's template
Witness_C14 ==
    /\ op = "SelectResponse"
    /\ input.intent = UnknownIntent
    /\ input.sentiment = "negative"
    /\ output.reply.response = responses.general.negative

HappyAndGrateful == "I am happy and grateful"

\* C15 as stated: Classify("I am happy and grateful") yields sentiment =
\* positive, emotion = happiness, intent = general and confidence > 0.
Counterexample_C15 ==
    op = "Classify" /\ input.text = HappyAndGrateful =>
        /\ output.analysis.sentiment = "positive"
        /\ output.analysis.emotion = "happiness"
        /\ output.analysis.intent = "general"
        /\ output.analysis.confidence > 0

\* C15 (amended): Classify("I am happy and grateful") yields sentiment =
\* positive, emotion = happiness, intent = gratitude ('grateful' is a
\* keyword of the gratitude intent, and no other intent matches) and
\* confidence = 100.
Theorem_C15 ==
    op = "Classify" /\ input.text = HappyAndGrateful =>
        /\ output.analysis.sentiment = "positive"
        /\ output.analysis.emotion = "happiness"
        /\ output.analysis.intent = "gratitude"
        /\ output.analysis.confidence = 100 * ConfScale

Witness_C15 ==
    /\ op = "Classify"
    /\ input.text = HappyAndGrateful
    /\ output.analysis.scores.combined.sentiment = "positive"
    /\ output.analysis.intent = "gratitude"

\* the sum of the Crisis Scorer's rules, before clamping
CrisisRuleSum(a) ==
    (CASE a.sentiment = "negative" -> 1
       [] a.sentiment = "positive" -> -1
       [] OTHER -> 0)
    + (CASE a.emotion = "suicidal" -> 5
         [] a.emotion = "depression" -> 3
         [] a.emotion \in {"anxiety", "anger"} -> 2
         [] a.emotion = "loneliness" -> 1
         [] OTHER -> 0)
    + (IF a.confidence > 90 * ConfScale THEN 2
       ELSE IF a.confidence > 80 * ConfScale THEN 1 ELSE 0)
    + (IF a.intent = "help_request" THEN 1 ELSE 0)

Clamp(x, low, high) == IF x < low THEN low ELSE IF x > high THEN high ELSE x

ConfidenceBoost(emotion, intent) ==
    (CASE emotion = "suicidal" -> 20
       [] emotion \in {"depression", "anxiety"} -> 10
       [] OTHER -> 0)
    + (CASE intent = "help_request" -> 15
         [] intent \in {"meditation", "sleep"} -> 10
         [] OTHER -> 0)

\* C17: for every combined sentiment confidence c in [0, 1], emotion and
\* intent calculateConfidence equals the clamp to [0, 100] of c * 100 plus
\* 20 if the emotion is suicidal, plus 10 if it is depression or anxiety,
\* plus 15 if the intent is help_request, plus 10 if it is meditation or
\* sleep.  (c = num / den; values are in units of 1 / ConfScale percent.)
Theorem_C17 ==
    op = "CalculateConfidence" =>
        output.confidence * input.sentiment.den =
            Clamp(input.sentiment.num * 100 * ConfScale
                      + ConfidenceBoost(input.emotion, input.intent) * ConfScale * input.sentiment.den,
                  0, 100 * ConfScale * input.sentiment.den)

\* c = 1/2 with the sleep boost: 60
Witness_C17 ==
    /\ op = "CalculateConfidence"
    /\ input.sentiment.num = 1 /\ input.sentiment.den = 2
    /\ input.emotion = "neutral" /\ input.intent = "sleep"
    /\ output.confidence = 60 * ConfScale

Votes(scores, label) == Cardinality({i \in DOMAIN scores : scores[i].sentiment = label})

MostVoted(scores) ==
    {l \in Sentiments : \A k \in Sentiments : Votes(scores, k) <= Votes(scores, l)}

\* C18: for every triple of scorer labels, in whatever order the three
\* scorer results are supplied, combineSentiments returns the label with
\* the most votes with confidence = votes / 3, each scorer counting as
\* exactly one vote; when labels tie for the most votes it returns the
\* first of positive, negative, neutral among the tied labels.
Theorem_C18 ==
    op = "Combine" =>
        /\ output.combined.sentiment \in MostVoted(input.scores)
        /\ output.combined.sentiment = SentimentTieBreak(MostVoted(input.scores))
        /\ output.combined.num = Votes(input.scores, output.combined.sentiment)
        /\ output.combined.den = 3
        /\ \A p \in Permutations(DOMAIN input.scores) :
               combineSentiments([i \in DOMAIN input.scores |-> input.scores[p[i]]])
                   = output.combined

\* a three-way tie, with neutral supplied first
Witness_C18 ==
    /\ op = "Combine"
    /\ input.scores[1].sentiment = "neutral"
    /\ input.scores[2].sentiment = "negative"
    /\ input.scores[3].sentiment = "positive"
    /\ output.combined.sentiment = "positive"
    /\ output.combined.num = 1

\* the keyword-match count of a category: the number of its keywords the
\* text includes
MatchCount(lexicon, category, text) ==
    LET entry == CHOOSE i \in 1..Len(lexicon) : lexicon[i].name = category
    IN Cardinality({j \in 1..Len(lexicon[entry].keywords) :
                       includes(text, lexicon[entry].keywords[j])})

Categories(lexicon) == {lexicon[i].name : i \in 1..Len(lexicon)}

\* result is what the claim asks of a detector: the default when every
\* category's count is 0, otherwise a category of the lexicon whose count
\* is non-zero and maximal
DetectsMaximal(lexicon, text, default, result) ==
    IF \A c \in Categories(lexicon) : MatchCount(lexicon, c, text) = 0
    THEN result = default
    ELSE /\ result \in Categories(lexicon)
         /\ MatchCount(lexicon, result, text) > 0
         /\ \A c \in Categories(lexicon) :
                MatchCount(lexicon, c, text) <= MatchCount(lexicon, result, text)

SadAloneKillMyself == "I am sad and alone, I want to kill myself"

\* C20: whenever the suicidal category shares the maximal keyword-match
\* count with one or more other emotion categories, the emotion detector
\* returns suicidal; the basic chat function's detector returns suicidal
\* whenever one of its suicidal keywords is in the text, whatever else is.
Theorem_C20 ==
    /\ op = "Classify" =>
           LET text == cleanText(input.text)
               suicidal == MatchCount(InitEmotionKeywords, "suicidal", text)
           IN /\ suicidal > 0
              /\ \A c \in Categories(InitEmotionKeywords) :
                     MatchCount(InitEmotionKeywords, c, text) <= suicidal
              => output.analysis.emotion = "suicidal"
    /\ op = "ClassifyBasic" =>
           (includes(toLowerCase(input.text), "suicidal")
                \/ includes(toLowerCase(input.text), "kill myself")
            => output.emotion = "suicidal")

\* a three-way tie of depression, loneliness and suicidal
Witness_C20 ==
    /\ op = "Classify"
    /\ input.text = SadAloneKillMyself
    /\ MatchCount(InitEmotionKeywords, "depression", cleanText(input.text)) = 1
    /\ MatchCount(InitEmotionKeywords, "loneliness", cleanText(input.text)) = 1
    /\ MatchCount(InitEmotionKeywords, "suicidal", cleanText(input.text)) = 1
    /\ output.analysis.emotion = "suicidal"

\* the categories that share the maximal, non-zero keyword-match count
TiedCategories(lexicon, text) ==
    {c \in Categories(lexicon) :
        /\ MatchCount(lexicon, c, text) > 0
        /\ \A d \in Categories(lexicon) :
               MatchCount(lexicon, d, text) <= MatchCount(lexicon, c, text)}

DeclaredAt(lexicon, category) == CHOOSE i \in 1..Len(lexicon) : lexicon[i].name = category

FirstDeclared(lexicon, categories) ==
    CHOOSE c \in categories :
        \A d \in categories : DeclaredAt(lexicon, c) <= DeclaredAt(lexicon, d)

LastDeclared(lexicon, categories) ==
    CHOOSE c \in categories :
        \A d \in categories : DeclaredAt(lexicon, d) <= DeclaredAt(lexicon, c)

\* C21 as stated: when several emotion categories (or several intent
\* categories) share the maximal keyword-match count, the detector returns
\* the first-declared of the tied categories.
Counterexample_C21 ==
    op = "Classify" =>
        LET text == cleanText(input.text)
        IN /\ Cardinality(TiedCategories(InitEmotionKeywords, text)) > 1 =>
                  output.analysis.emotion =
                      FirstDeclared(InitEmotionKeywords, TiedCategories(InitEmotionKeywords, text))
           /\ Cardinality(TiedCategories(InitIntentKeywords, text)) > 1 =>
                  output.analysis.intent =
                      FirstDeclared(InitIntentKeywords, TiedCategories(InitIntentKeywords, text))

\* C21 (amended): when several emotion categories (or several intent
\* categories) share the maximal keyword-match count, the detector returns
\* the last-declared of the tied categories in the lexicon's declaration
\* order.
Theorem_C21 ==
    op = "Classify" =>
        LET text == cleanText(input.text)
        IN /\ Cardinality(TiedCategories(InitEmotionKeywords, text)) > 1 =>
                  output.analysis.emotion =
                      LastDeclared(InitEmotionKeywords, TiedCategories(InitEmotionKeywords, text))
           /\ Cardinality(TiedCategories(InitIntentKeywords, text)) > 1 =>
                  output.analysis.intent =
                      LastDeclared(InitIntentKeywords, TiedCategories(InitIntentKeywords, text))

\* help_request and gratitude tie, depression and happiness tie
Witness_C21 ==
    /\ op = "Classify"
    /\ TiedCategories(InitIntentKeywords, cleanText(input.text)) = {"help_request", "gratitude"}
    /\ TiedCategories(InitEmotionKeywords, cleanText(input.text)) = {"depression", "happiness"}
    /\ output.analysis.intent = "gratitude"
    /\ output.analysis.emotion = "happiness"

\* the tokens of a cleaned text: its words, separated by single spaces
TokenCount(text) ==
    IF text = "" THEN 0
    ELSE 1 + Cardinality({i \in 1..Len(text) : CharAt(text, i) = " "})

\* the tokens of text that are equal to a word of the list
ExactTokenMatches(text, list) ==
    LET tokens == split(text)
    IN Cardinality({i \in 1..Len(tokens) : \E j \in 1..Len(list) : list[j] = tokens[i]})

\* C22: for every cleaned text the Lexical Polarity Scorer computes
\* compound = (positiveCount - negativeCount) / max(tokenCount, 1) over
\* exact-token matches and returns positive iff compound > 0.1, negative
\* iff compound < -0.1, neutral otherwise; empty text gives neutral with
\* compound 0.
Theorem_C22 ==
    op = "Classify" =>
        LET text == cleanText(input.text)
            vader == output.analysis.scores.vader
            positiveCount == ExactTokenMatches(text, vaderPositiveWords)
            negativeCount == ExactTokenMatches(text, vaderNegativeWords)
            tokens == IF TokenCount(text) > 1 THEN TokenCount(text) ELSE 1
        IN /\ vader.positive = positiveCount
           /\ vader.negative = negativeCount
           /\ vader.num * tokens = (positiveCount - negativeCount) * vader.den
           /\ vader.sentiment = "positive" <=> (positiveCount - negativeCount) * 10 > tokens
           /\ vader.sentiment = "negative" <=> (positiveCount - negativeCount) * 10 < -tokens
           /\ vader.sentiment \in Sentiments
           /\ text = "" => vader.sentiment = "neutral" /\ vader.num = 0

\* one positive token among five: compound 0.2, positive
Witness_C22 ==
    /\ op = "Classify"
    /\ input.text = HappyAndGrateful
    /\ output.analysis.scores.vader.positive = 1
    /\ output.analysis.scores.vader.den = 5
    /\ output.analysis.scores.vader.sentiment = "positive"

\* what the Keyword Ratio Scorer returns for the counts pos and neg
RatioResultIs(result, pos, neg) ==
    IF pos + neg = 0
    THEN result.sentiment = "neutral" /\ result.num = 0
    ELSE /\ result.num * (pos + neg) = (pos - neg) * result.den
         /\ result.sentiment = "positive" <=> (pos - neg) * 10 > 3 * (pos + neg)
         /\ result.sentiment = "negative" <=> (pos - neg) * 10 < -3 * (pos + neg)
         /\ result.sentiment \in Sentiments

\* C23 as stated: for every cleaned text the Keyword Ratio Scorer takes pos
\* and neg as the numbers of substring occurrences of the positive and
\* negative keywords in the whole string; it returns neutral with score 0
\* when both are zero, and otherwise score = (pos - neg) / (pos + neg) with
\* label positive iff score > 0.3, negative iff score < -0.3, neutral
\* otherwise.
Counterexample_C23 ==
    op = "Classify" =>
        RatioResultIs(output.analysis.scores.keyword,
                      TotalOccurrences(cleanText(input.text), positiveKeywords),
                      TotalOccurrences(cleanText(input.text), negativeKeywords))

KeywordsIncluded(text, keywords) ==
    Cardinality({j \in 1..Len(keywords) : Occurrences(text, keywords[j]) > 0})

\* C23 (amended): pos and neg are the numbers of positive and negative
\* keywords that occur as a substring of the whole string, a keyword
\* counting once however often it occurs; the scorer returns neutral with
\* score 0 when both are zero, and otherwise score = (pos - neg) /
\* (pos + neg) with label positive iff score > 0.3, negative iff
\* score < -0.3, neutral otherwise.
Theorem_C23 ==
    op = "Classify" =>
        RatioResultIs(output.analysis.scores.keyword,
                      KeywordsIncluded(cleanText(input.text), positiveKeywords),
                      KeywordsIncluded(cleanText(input.text), negativeKeywords))

\* 'happy' occurs twice and 'sad' once: pos = neg = 1, score 0, neutral
Witness_C23 ==
    /\ op = "Classify"
    /\ Occurrences(cleanText(input.text), "happy") = 2
    /\ Occurrences(cleanText(input.text), "sad") = 1
    /\ output.analysis.scores.keyword.num = 0
    /\ output.analysis.scores.keyword.den = 2
    /\ output.analysis.scores.keyword.sentiment = "neutral"

LoveButWantToDie == "I love you but I want to die"

\* C24: for every Classification that Classify can produce with emotion =
\* suicidal, whatever its sentiment, intent and confidence, AssessCrisis
\* returns level 5 and the flag's flag_type is 'suicidal', never 'crisis'.
Counterexample_C24 ==
    op = "AssessCrisis" /\ output.analysis.emotion = "suicidal" =>
        /\ output.level = 5
        /\ flagType(output.level) = "suicidal"

ContainsSuicidalKeyword(text) ==
    \E k \in SuicidalKeywords : includes(cleanText(text), k)

\* C25: for every text that contains at least one keyword of the suicidal
\* lexicon, whatever other keywords it also contains, Classify then
\* AssessCrisis yields a crisis level >= 1.
Counterexample_C25 ==
    op = "AssessCrisis" /\ ContainsSuicidalKeyword(input.text) => output.level >= 1

\* C26: for every text in which no lexicon keyword and no pattern matches
\* the Classify then AssessCrisis pipeline yields crisis level 0, so the
\* enhanced handler inserts no crisis_flags record and reports
\* crisis_detected = false.
Counterexample_C26 ==
    req.crisisReached /\ NoLexiconMatch(req.message) =>
        /\ req.crisisLevel = 0
        /\ req.flagInsert = <<>>
        /\ FlagsOfRequest = {}
        /\ req.pc = "done" /\ req.response.status = 200 =>
               req.response.body.crisis_detected = FALSE

\* C27: in the enhanced chat handler, whenever a user message whose crisis
\* level is > 0 has been stored in messages, a crisis_flags insert for
\* that message has been issued by the time the handler responds, for
\* every outcome of the later collaborator calls.
Counterexample_C27 ==
    /\ req.pc = "done"
    /\ req.userMessage # 0
    /\ detectCrisisLevel(req.analysis) > 0
    => /\ req.flagInsert # <<>>
       /\ req.flagInsert[1].message_id = req.userMessage

BasicEmotions == {"depression", "happiness", "neutral"}

Theorem_C29 ==
    /\ req.pc = "done" /\ req.response.status \in {401, 400, 404} => db = req.dbAtStart
    /\ req.pc \in {"auth", "parse", "getConversation"} => db = req.dbAtStart

\* a request for a conversation that does not exist, rejected by the basic
\* function with rows of an earlier request in the tables
Witness_C29 ==
    /\ req.function = "basic"
    /\ req.pc = "done" /\ req.response.status = 404
    /\ Len(db.conversations) > 0 /\ Len(db.messages) > 0
    /\ req.conversationId = Len(db.conversations) + 1
    /\ db = req.dbAtStart

SatisfiesChecks(flag) ==
    /\ flag.severity_level \in severityLevels
    /\ flag.flag_type \in crisisFlagTypes

\* C30: every crisis_flags row the enhanced handler inserts satisfies the
\* schema's checks (severity_level between 1 and 5, flag_type in
\* {suicidal, self_harm, crisis, concerning}) and its message_id is the id
\* of a user message stored earlier in the same request.
Theorem_C30 ==
    /\ \A i \in 1..Len(db.crisis_flags) :
           /\ SatisfiesChecks(db.crisis_flags[i])
           /\ db.crisis_flags[i].message_id \in 1..Len(db.messages)
           /\ db.messages[db.crisis_flags[i].message_id].sender_type = "user"
    /\ req.flagInsert # <<>> =>
           /\ SatisfiesChecks(req.flagInsert[1])
           /\ req.flagInsert[1].message_id = req.userMessage
           /\ req.userMessage > Len(req.dbAtStart.messages)
           /\ req.userMessage <= Len(db.messages)
           /\ db.messages[req.userMessage].sender_type = "user"
           /\ db.messages[req.userMessage].content = req.message
           /\ db.messages[req.userMessage].conversation_id = req.flagInsert[1].conversation_id

\* the second request's flag, of type 'crisis', refers to that request's
\* user message
Witness_C30 ==
    /\ req.served = 2
    /\ req.flagInsert # <<>>
    /\ req.flagInsert[1].flag_type = "crisis"
    /\ req.flagInsert[1].severity_level \in 1..4
    /\ req.userMessage > 2
    /\ \E i \in FlagsOfRequest : db.crisis_flags[i] = req.flagInsert[1]

====
